---- MODULE Spec2Model ----
(***************************************************************************)
(* Model of franka_ros_interface: the controller arbiter                   *)
(* franka_interface::MotionControllerInterface                             *)
(* (src/franka_interface/src/motion_controller_interface.cpp) and          *)
(* franka_ros_controllers::CartesianImpedanceController                    *)
(* (src/franka_ros_controllers/src/cartesian_impedance_controller.cpp).    *)
(*                                                                         *)
(* Arbiter: time is counted in clock quanta; one second is TicksPerSecond  *)
(* quanta. Spec models every callback as one step (the callbacks that      *)
(* touch the controller and the mode run under mtx_), SpecLive adds the    *)
(* fairness of the watchdog timer, and SpecThreads models the same         *)
(* callbacks statement by statement on three threads.                      *)
(* Impedance controller: SpecLaw models init, starting, update and the two *)
(* topic callbacks as single steps; SpecLawThreads runs the callbacks      *)
(* statement by statement beside the control cycle.                        *)
(***************************************************************************)
EXTENDS Integers, Sequences, FiniteSets, TLC

(* ---- bounds of the model ---- *)
TicksPerSecond == 2
MaxTime == 4

(* ---- franka_core_msgs::JointCommand mode codes ---- *)
POSITION_MODE == 1
VELOCITY_MODE == 2
TORQUE_MODE == 3
IMPEDANCE_MODE == 4

(* the "unsure" mode of init, lines 36 and 91-94 *)
UNMAPPED_MODE == -1

(* value of std::map<std::string,int>::operator[] for a key it does not hold *)
MAP_VALUE_INIT == 0

(* a null std::shared_ptr in box_cmd_timeout_ *)
NullTime == 0 - 1

(* ---- controller names: the fallbacks of init, lines 38-61 ---- *)
joint_position_controller_name_ == "joint_position_controller"
joint_velocity_controller_name_ == "joint_velocity_controller"
joint_torque_controller_name_ == "joint_torque_controller"
joint_impedance_controller_name_ == "joint_impedance_controller"
cartesian_pose_controller_name_ == "cartesian_pose_controller"
cartesian_impedance_controller_name_ == "cartesian_impedance_controller"
cartesian_force_controller_name_ == "cartesian_force_controller"
trajectory_controller_name_ == "position_joint_trajectory_controller"

(* a /controllers_config/default_controller that names none of the eight *)
UndefinedControllerName == "undefined_controller"

(* what a read of element 0 of an empty std::vector<std::string> may yield *)
GarbageName == "<garbage>"

all_controllers_ ==
  << joint_position_controller_name_,
     joint_velocity_controller_name_,
     joint_torque_controller_name_,
     joint_impedance_controller_name_,
     cartesian_pose_controller_name_,
     cartesian_impedance_controller_name_,
     cartesian_force_controller_name_,
     trajectory_controller_name_ >>

Range(s) == { s[i] : i \in DOMAIN s }

ControllerNames == Range(all_controllers_)

DefaultNames == ControllerNames \cup {UndefinedControllerName}

controller_name_to_mode_map_ ==
  [ n \in ControllerNames |->
      CASE n = joint_position_controller_name_ -> POSITION_MODE
        [] n = joint_torque_controller_name_ -> TORQUE_MODE
        [] n = joint_impedance_controller_name_ -> IMPEDANCE_MODE
        [] n = joint_velocity_controller_name_ -> VELOCITY_MODE
        [] OTHER -> UNMAPPED_MODE ]

(* controller_name_to_mode_map_[name], operator[] of std::map *)
ModeOf(name) ==
  IF name \in DOMAIN controller_name_to_mode_map_
    THEN controller_name_to_mode_map_[name]
    ELSE MAP_VALUE_INIT

MappedModes == {POSITION_MODE, VELOCITY_MODE, TORQUE_MODE, IMPEDANCE_MODE}

(* mode codes a JointCommand message may carry *)
CommandModes == (UNMAPPED_MODE .. (IMPEDANCE_MODE + 1))

(* ---- command timeout, in clock quanta ---- *)
Min(a, b) == IF b < a THEN b ELSE a
Max(a, b) == IF a < b THEN b ELSE a

TIMEOUT_LOWER == 0
TIMEOUT_UPPER == 1 * TicksPerSecond

ClampTimeout_NoUpper(x) == Max(TIMEOUT_LOWER, x)

ClampTimeout(x) == Min(TIMEOUT_UPPER, Max(TIMEOUT_LOWER, x))

(* values of /controllers_config/command_timeout and of timeout messages *)
TimeoutInputs ==
  ((0 - 1) .. (TIMEOUT_UPPER + 1)) \cup {(0 - 3) * TicksPerSecond, 5 * TicksPerSecond}

(***************************************************************************)
(* CartesianImpedanceController                                            *)
(* (src/franka_ros_controllers/src/cartesian_impedance_controller.cpp).    *)
(* A double is an integer number of 1/ValueScale: ValueScale is a power of *)
(* two large enough for MaxCycles halvings by the filter to be exact.      *)
(* Angles are counted in units of pi/4.                                    *)
(***************************************************************************)
MaxCycles == 2

(* messages and robot movements considered in one run *)
MaxEvents == 2

ValueScale == 2^MaxCycles

(* the number v as a double *)
Fix(v) == v * ValueScale

NUM_JOINTS == 7

NUM_GAINS == 6

Joints == 1..NUM_JOINTS

Axes == 1..NUM_GAINS

Coords == 1..3

Abs(x) == IF x < 0 THEN 0 - x ELSE x

(* Eigen products: row i of a matrix by a vector of 6 or of 7 *)
Row6(M, i, v) ==
  M[i, 1] * v[1] + M[i, 2] * v[2] + M[i, 3] * v[3]
  + M[i, 4] * v[4] + M[i, 5] * v[5] + M[i, 6] * v[6]

Row7(M, i, v) == Row6(M, i, v) + M[i, 7] * v[7]

(* a 6 x 6 and a 6 x 7 matrix by a vector *)
Times6x6(M, v) ==
  << Row6(M, 1, v), Row6(M, 2, v), Row6(M, 3, v),
     Row6(M, 4, v), Row6(M, 5, v), Row6(M, 6, v) >>

Times6x7(M, v) ==
  << Row7(M, 1, v), Row7(M, 2, v), Row7(M, 3, v),
     Row7(M, 4, v), Row7(M, 5, v), Row7(M, 6, v) >>

(* a 7 x 6 and a 7 x 7 matrix by a vector *)
Times7x6(M, v) ==
  << Row6(M, 1, v), Row6(M, 2, v), Row6(M, 3, v), Row6(M, 4, v),
     Row6(M, 5, v), Row6(M, 6, v), Row6(M, 7, v) >>

Times7x7(M, v) ==
  << Row7(M, 1, v), Row7(M, 2, v), Row7(M, 3, v), Row7(M, 4, v),
     Row7(M, 5, v), Row7(M, 6, v), Row7(M, 7, v) >>

(* the largest r with r*r <= n *)
ISqrt(n) == CHOOSE r \in 0..n : r * r <= n /\ n < (r + 1) * (r + 1)

(* sqrt of a double, rounded down to a double *)
sqrt(x) == ISqrt(x * ValueScale)

Zero6x6 == [i \in Axes, j \in Axes |-> 0]

(* Eigen's setIdentity on a 6x6 matrix *)
setIdentity == [i \in Axes, j \in Axes |-> IF i = j THEN Fix(1) ELSE 0]

(* a diagonal 6x6 matrix written over the identity *)
Diagonal(d) == [i \in Axes, j \in Axes |-> IF i = j THEN d[i] ELSE 0]

ZeroJoints == [i \in Joints |-> 0]

ZeroPosition == [c \in Coords |-> 0]

(* ---- Eigen::Quaterniond, restricted to the rotations about the x axis ----
   The quaternion (cos(t/2), sin(t/2), 0, 0) is the integer t, its angle as a
   double; pi is Pi, and t and t + 4*Pi are the same quaternion. *)
Pi == Fix(4)

QuaternionPeriod == 4 * Pi

(* Quaterniond(0,0,0,1) in coefficient order x,y,z,w: the identity *)
QuaternionIdentity == 0

(* coeffs() << -coeffs() *)
Negated(t) == (t + 2 * Pi) % QuaternionPeriod

(* a.coeffs().dot(b.coeffs()) < 0.0: the dot product is cos((a-b)/2) *)
DotNegative(a, b) ==
  LET d == (a - b) % QuaternionPeriod IN Pi < d /\ d < 3 * Pi

(* a * b.inverse() *)
TimesInverse(a, b) == (a - b) % QuaternionPeriod

(* Eigen::AngleAxisd(q): angle = 2*atan2(|vec|, |w|) in [0, pi], axis =
   vec/|vec|, negated when w < 0, and (1,0,0) when vec = 0. The axis is its x
   component, a double. *)
AngleAxis(t) ==
  IF t = 0 \/ t = 2 * Pi     THEN [axis |-> Fix(1), angle |-> 0]
  ELSE IF t <= Pi            THEN [axis |-> Fix(1), angle |-> t]
  ELSE IF t < 2 * Pi         THEN [axis |-> Fix(0 - 1), angle |-> 2 * Pi - t]
  ELSE IF t < 3 * Pi         THEN [axis |-> Fix(1), angle |-> t - 2 * Pi]
  ELSE                            [axis |-> Fix(0 - 1), angle |-> QuaternionPeriod - t]

(* what Quaterniond(AngleAxisd) gives when the axis is no unit vector *)
NotARotation == 0 - 1

(* Eigen::Quaterniond(aa): (cos(angle/2), sin(angle/2) * axis) *)
QuaternionOf(aa) ==
  IF aa.axis = Fix(1) THEN aa.angle % QuaternionPeriod
  ELSE IF aa.axis = Fix(0 - 1) THEN (0 - aa.angle) % QuaternionPeriod
  ELSE IF aa.angle = 0 THEN QuaternionIdentity
  ELSE NotARotation

(* ---- members initialised in the class declaration ---- *)
(* filter_params_, the filter coefficient alpha: one half or one *)
FilterParams == {ValueScale \div 2, ValueScale}

(* pseudoInverse (pseudo_inversion.h) damps every singular value s to
   s / (s*s + 0.2*0.2): 25/26 for s = 1 *)
PINV_DAMPED_NUM == 25

PINV_DAMPED_DEN == 26

(* a torque is an integer number of 1/TorqueScale *)
TorqueScale == ValueScale * ValueScale * PINV_DAMPED_DEN

(* delta_tau_max_ = 1.0 *)
delta_tau_max_ == 1 * TorqueScale

(* nullspace_stiffness_ before the first cycle *)
NULLSPACE_STIFFNESS_INIT == Fix(16)

(* ---- the filter of update, lines 202-209 ---- *)
Filter_TowardCurrent(alpha, target, current) ==
  (alpha * current + (ValueScale - alpha) * target) \div ValueScale

Filter(alpha, target, current) ==
  (alpha * target + (ValueScale - alpha) * current) \div ValueScale

FilterMatrix(alpha, target, current) ==
  [i \in Axes, j \in Axes |-> Filter(alpha, target[i, j], current[i, j])]

FilterPosition(alpha, target, current) ==
  [c \in Coords |-> Filter(alpha, target[c], current[c])]

(* lines 206-210: the orientation is filtered as axis and angle *)
FilterOrientation(alpha, target, current) ==
  LET aa_orientation_d == AngleAxis(current)
      aa_orientation_d_target == AngleAxis(target)
  IN QuaternionOf([axis  |-> Filter(alpha, aa_orientation_d_target.axis,
                                           aa_orientation_d.axis),
                   angle |-> Filter(alpha, aa_orientation_d_target.angle,
                                           aa_orientation_d.angle)])

(* ---- saturateTorqueRate, lines 213-222 ---- *)
saturateTorqueRate_NoLowerClamp(tau_d_calculated, tau_J_d) ==
  [i \in Joints |->
     LET difference == tau_d_calculated[i] - tau_J_d[i]
     IN tau_J_d[i] + Min(difference, delta_tau_max_)]

saturateTorqueRate(tau_d_calculated, tau_J_d) ==
  [i \in Joints |->
     LET difference == tau_d_calculated[i] - tau_J_d[i]
     IN tau_J_d[i] + Max(Min(difference, delta_tau_max_), 0 - delta_tau_max_)]

(* ---- the control law of update, lines 159-193 ---- *)
(* lines 162-173: position error, and orientation error as axis * angle *)
PoseError(position, orientation, position_d, orientation_d) ==
  LET flipped == IF DotNegative(orientation_d, orientation)
                   THEN Negated(orientation) ELSE orientation
      error_quaternion_angle_axis == AngleAxis(TimesInverse(flipped, orientation_d))
  IN << position[1] - position_d[1],
        position[2] - position_d[2],
        position[3] - position_d[3],
        (error_quaternion_angle_axis.axis * error_quaternion_angle_axis.angle)
          \div ValueScale,
        0,
        0 >>

Transposed(jacobian) == [j \in Joints, a \in Axes |-> jacobian[a, j]]

(* pseudoInverse of the transposed jacobian, in 1/PINV_DAMPED_DEN, for a
   jacobian whose singular values are 0 or 1 *)
pseudoInverse(jacobian_transpose) ==
  [a \in Axes, j \in Joints |-> PINV_DAMPED_NUM * jacobian_transpose[j, a]]

(* lines 182-183 *)
TauTask(jacobian, stiffness, damping, error, dq) ==
  LET Ke    == Times6x6(stiffness, error)
      DJdq  == Times6x6(damping, Times6x7(jacobian, dq))
      force == [a \in Axes |-> 0 - Ke[a] - ValueScale * DJdq[a]]
      tau   == Times7x6(Transposed(jacobian), force)
  IN [j \in Joints |-> PINV_DAMPED_DEN * tau[j]]

(* lines 185-191 *)
TauNullspace(jacobian, stiffness, q_d_nullspace, q, dq) ==
  LET jacobian_transpose_pinv == pseudoInverse(Transposed(jacobian))
      projector ==
        [i \in Joints, j \in Joints |->
           (IF i = j THEN PINV_DAMPED_DEN ELSE 0)
           - Row6(Transposed(jacobian), i,
                  [a \in Axes |-> jacobian_transpose_pinv[a, j]])]
      damping == 2 * sqrt(stiffness)
      pd == [j \in Joints |-> stiffness * (q_d_nullspace[j] - q[j]) - damping * dq[j]]
      tau == Times7x7(projector, pd)
  IN [j \in Joints |-> ValueScale * tau[j]]

(* line 193 *)
TauDesired(tau_task, tau_nullspace, coriolis) ==
  [j \in Joints |-> tau_task[j] + tau_nullspace[j] + coriolis[j]]

(* ---- what the robot and the topics supply ---- *)
(* joint positions, joint velocities and jacobian entries are whole numbers *)
Pose(position, orientation) == [position |-> position, orientation |-> orientation]

PositionOf(x, y, z) == [c \in Coords |-> << Fix(x), Fix(y), Fix(z) >>[c]]

(* franka::RobotState: O_T_EE as position and quaternion (Quaterniond of a
   rotation matrix has w >= 0), q, dq and tau_J_d *)
RobotState(O_T_EE, q, dq, tau_J_d) ==
  [O_T_EE |-> O_T_EE, q |-> q, dq |-> dq, tau_J_d |-> tau_J_d]

RobotStates ==
  { [O_T_EE |-> Pose(PositionOf(0, 0, 0), QuaternionIdentity),
     q |-> ZeroJoints, dq |-> ZeroJoints],
    [O_T_EE |-> Pose(PositionOf(1, 0, 0 - 2), Fix(2)),
     q |-> [j \in Joints |-> IF j = NUM_JOINTS THEN 2 ELSE 1],
     dq |-> [j \in Joints |-> IF j % 2 = 0 THEN 1 ELSE 0 - 1]] }

(* franka_hw::FrankaModelHandle: getZeroJacobian, 6 x 7, and getCoriolis, a
   torque per joint *)
ModelOutputs ==
  { [jacobian |-> [a \in Axes, j \in Joints |-> 0],
     coriolis |-> ZeroJoints],
    [jacobian |-> [a \in Axes, j \in Joints |-> IF a = j THEN 1 ELSE 0],
     coriolis |-> [j \in Joints |-> IF j % 3 = 0 THEN 3 * TorqueScale
                                    ELSE IF j % 3 = 1 THEN 0 - 3 * TorqueScale
                                    ELSE TorqueScale \div 2]] }

(* franka_core_msgs::CartImpedanceStiffness: use_flag, the six gains x..zrot,
   the six dampings bx..bzrot, and the coupled blocks xx..zzrot, bxx..bzzrot *)
NO_DAMPING == Fix(0 - 1)

Gains(translation, rotation) ==
  [a \in Axes |-> IF a <= 3 THEN Fix(translation) ELSE Fix(rotation)]

Coupled(diagonal, off) ==
  [i \in Axes, j \in Axes |->
     IF i = j THEN Fix(diagonal)
     ELSE IF (i <= 3) = (j <= 3) THEN Fix(off)
     ELSE 0]

StiffnessMsg(use_flag, gains, dampings, stiffness_blocks, damping_blocks) ==
  [use_flag |-> use_flag, gains |-> gains, dampings |-> dampings,
   stiffness_blocks |-> stiffness_blocks, damping_blocks |-> damping_blocks]

StiffnessMessages ==
  { StiffnessMsg(0, Gains(16, 4), [a \in Axes |-> NO_DAMPING], Zero6x6, Zero6x6),
    StiffnessMsg(0, Gains(4, 36), Gains(3, 1), Zero6x6, Zero6x6),
    StiffnessMsg(1, Gains(0, 0), Gains(0, 0), Coupled(9, 2), Coupled(2, 1)) }

(* geometry_msgs::PoseStamped: a quaternion and its negation are both sent *)
PoseMessages ==
  { Pose(PositionOf(2, 0, 0), Fix(2)),
    Pose(PositionOf(0, 0 - 1, 0), Negated(Fix(1))) }

(* the parameters init asks for, and whether the hardware interfaces and
   handles are there *)
Param(found, value) == [found |-> found, value |-> value]

LawConfig(arm_id, joint_names, stiffness_gains, hardware) ==
  [arm_id |-> arm_id, joint_names |-> joint_names,
   stiffness_gains |-> stiffness_gains, hardware |-> hardware]

(* arm_id missing or there; joint_names missing, 6 or 7 of them;
   stiffness_gains missing, 5 or 6 of them *)
LawConfigs ==
  { LawConfig(a, j, g, h) :
      a \in { Param(FALSE, ""), Param(TRUE, "panda") },
      j \in { Param(FALSE, << >>),
              Param(TRUE, [i \in 1..6 |-> i]),
              Param(TRUE, [i \in Joints |-> i]) },
      g \in { Param(FALSE, << >>),
              Param(TRUE, [i \in 1..5 |-> Fix(4)]),
              Param(TRUE, [i \in Axes |-> IF i <= 3 THEN Fix(16) ELSE Fix(4)]) },
      h \in BOOLEAN }

(***************************************************************************)
(* State of MotionControllerInterface, and of the callbacks as threads.    *)
(***************************************************************************)
VARIABLES
  default_controller_name_,
  current_controller_name_,
  current_mode_,
  box_cmd_timeout_,
  box_timeout_length_,
  now,
  crashed,
  last,
  mtx_,
  pc,
  cmd_local,
  wd_local,
  actor,
  running

(* state of CartesianImpedanceController *)
VARIABLES
  lifecycle,
  law_config,
  filter_params_,
  cartesian_stiffness_target_,
  cartesian_damping_target_,
  cartesian_stiffness_,
  cartesian_damping_,
  nullspace_stiffness_target_,
  nullspace_stiffness_,
  position_d_target_,
  position_d_,
  orientation_d_target_,
  orientation_d_,
  q_d_nullspace_,
  robot_state,
  joint_handles_,
  cycles,
  events,
  law_last,
  law_pc,
  law_local

targets ==
  << cartesian_stiffness_target_, cartesian_damping_target_,
     nullspace_stiffness_target_, position_d_target_, orientation_d_target_ >>

smoothed ==
  << cartesian_stiffness_, cartesian_damping_, nullspace_stiffness_,
     position_d_, orientation_d_ >>

law_threads == << law_pc, law_local >>

law ==
  << lifecycle, law_config, filter_params_, targets, smoothed, q_d_nullspace_,
     robot_state, joint_handles_, cycles, events, law_last, law_threads >>

config == << default_controller_name_ >>

arbiter == << current_controller_name_, current_mode_, box_cmd_timeout_ >>

threads == << mtx_, pc, cmd_local, wd_local, actor >>

vars ==
  << default_controller_name_, current_controller_name_, current_mode_,
     box_cmd_timeout_, box_timeout_length_, now, crashed, last,
     mtx_, pc, cmd_local, wd_local, actor, running, law >>

(* a request handed to controller_manager_->switchController *)
Request(start, stop) == [start |-> start, stop |-> stop]

(* record of the callback that ran last *)
Event(op, arg, ok, ret, requests) ==
  [op |-> op, arg |-> arg, ok |-> ok, ret |-> ret, requests |-> requests]

(* what a call leaves behind: its return value, the requests it issued, whether
   the process ended in it, and the controller and mode afterwards *)
Outcome(ret, requests, crash, controller, mode) ==
  [ret |-> ret, requests |-> requests, crash |-> crash,
   controller |-> controller, mode |-> mode]

(* controller_manager_->switchController(start, stop, BEST_EFFORT), lines 150
   and 228: the controllers running afterwards. An accepted request starts
   the start set and stops the stop set in one step, a refused one changes
   nothing. *)
switchController(request, ok) ==
  IF ok THEN (running \cup Range(request.start)) \ Range(request.stop)
        ELSE running

(* the controllers running once a callback has issued its requests *)
Switched(requests, ok) ==
  IF requests = << >> THEN running ELSE switchController(requests[1], ok)

(* ---- switchControllers, lines 175-246 ---- *)
StartControllers(control_mode) ==
  CASE control_mode = POSITION_MODE -> << joint_position_controller_name_ >>
    [] control_mode = IMPEDANCE_MODE -> << joint_impedance_controller_name_ >>
    [] control_mode = TORQUE_MODE -> << joint_torque_controller_name_ >>
    [] control_mode = VELOCITY_MODE -> << joint_velocity_controller_name_ >>
    [] OTHER -> << >>

StopControllers(control_mode) ==
  CASE control_mode = POSITION_MODE ->
         << joint_impedance_controller_name_, joint_torque_controller_name_,
            joint_velocity_controller_name_, cartesian_pose_controller_name_,
            cartesian_impedance_controller_name_, cartesian_force_controller_name_,
            trajectory_controller_name_ >>
    [] control_mode = IMPEDANCE_MODE ->
         << joint_position_controller_name_, joint_torque_controller_name_,
            joint_velocity_controller_name_, cartesian_pose_controller_name_,
            cartesian_impedance_controller_name_, cartesian_force_controller_name_,
            trajectory_controller_name_ >>
    [] control_mode = TORQUE_MODE ->
         << joint_position_controller_name_, joint_impedance_controller_name_,
            joint_velocity_controller_name_, cartesian_pose_controller_name_,
            cartesian_impedance_controller_name_, cartesian_force_controller_name_,
            trajectory_controller_name_ >>
    [] control_mode = VELOCITY_MODE ->
         << joint_position_controller_name_, joint_impedance_controller_name_,
            joint_torque_controller_name_, cartesian_pose_controller_name_,
            cartesian_impedance_controller_name_, cartesian_force_controller_name_,
            trajectory_controller_name_ >>
    [] OTHER -> << >>

(* the default branch of the switch, lines 223-226 *)
UnknownMode(control_mode) ==
  Outcome(FALSE, << >>, FALSE, current_controller_name_, current_mode_)

SwitchFailed_StateWritten(request) ==
  Outcome(FALSE, << request >>, FALSE, request.start[1], ModeOf(request.start[1]))

(* the request was refused, lines 228-233 *)
SwitchFailed(request) ==
  Outcome(FALSE, << request >>, FALSE, current_controller_name_, current_mode_)

SwitchDone_ControllerKept(control_mode, request) ==
  Outcome(TRUE, << request >>, FALSE, current_controller_name_, control_mode)

(* the request went through, lines 234-245 *)
SwitchDone(control_mode, request) ==
  Outcome(TRUE, << request >>, FALSE, request.start[1], control_mode)

SameMode_Reissued(control_mode) ==
  Outcome(TRUE,
          << Request(StartControllers(control_mode), StopControllers(control_mode)) >>,
          FALSE, current_controller_name_, current_mode_)

(* current_mode_ == control_mode, lines 179 and 245 *)
SameMode(control_mode) ==
  Outcome(TRUE, << >>, FALSE, current_controller_name_, current_mode_)

(* switchControllers(control_mode) when the controller manager answers ok *)
switchControllers(control_mode, ok) ==
  IF current_mode_ # control_mode
    THEN IF control_mode \notin MappedModes
           THEN UnknownMode(control_mode)
           ELSE LET request == Request(StartControllers(control_mode),
                                       StopControllers(control_mode))
                IN IF ~ok THEN SwitchFailed(request)
                          ELSE SwitchDone(control_mode, request)
    ELSE SameMode(control_mode)

StampedTime_Kept(ret) == box_cmd_timeout_

(* the time jointCommandCallback leaves in box_cmd_timeout_, lines 251-254 *)
StampedTime(ret) == IF ret THEN now ELSE box_cmd_timeout_

(* ---- jointCommandCallback, lines 248-255 ---- *)
jointCommandCallback(control_mode, ok) ==
  /\ ~crashed
  /\ LET r == switchControllers(control_mode, ok)
     IN /\ current_mode_' = r.mode
        /\ current_controller_name_' = r.controller
        /\ box_cmd_timeout_' = StampedTime(r.ret)
        /\ last' = Event("command", control_mode, ok, r.ret, r.requests)
        /\ running' = Switched(r.requests, ok)
  /\ UNCHANGED << config, law, box_timeout_length_, now, crashed, threads >>

(* ---- jointCommandTimeoutCallback, lines 168-173 ---- *)
jointCommandTimeoutCallback(data) ==
  /\ ~crashed
  /\ box_timeout_length_' = ClampTimeout(data)
  /\ last' = Event("timeout", data, TRUE, TRUE, << >>)
  /\ UNCHANGED << config, law, running, arbiter, now, crashed, threads >>

(* ---- switchToDefaultController, lines 137-165 ---- *)
DefaultStartControllers ==
  SelectSeq(all_controllers_, LAMBDA c : c = default_controller_name_)

DefaultStopControllers ==
  SelectSeq(all_controllers_, LAMBDA c : c # default_controller_name_)

(* start_controllers[0], line 154: the element when there is one, otherwise a
   read outside the vector, which yields any name or ends the process *)
StartFront(start_controllers) ==
  IF start_controllers # << >>
    THEN {[crash |-> FALSE, name |-> start_controllers[1]]}
    ELSE {[crash |-> TRUE, name |-> current_controller_name_]}
         \cup {[crash |-> FALSE, name |-> n] :
                 n \in ControllerNames \cup {default_controller_name_, GarbageName}}

(* the outcomes of switchToDefaultController() when the controller manager
   answers ok *)
switchToDefaultController(ok) ==
  LET request == Request(DefaultStartControllers, DefaultStopControllers)
  IN IF ~ok
       THEN {Outcome(FALSE, << request >>, FALSE,
                     current_controller_name_, current_mode_)}
       ELSE {Outcome(TRUE, << request >>, front.crash, front.name,
                     IF front.crash THEN current_mode_ ELSE ModeOf(front.name)) :
               front \in StartFront(request.start)}

(* ---- commandTimeoutCheck, lines 119-135 ---- *)
command_timeout(p_cmd_msg_time, p_timeout_length) ==
  /\ p_cmd_msg_time # NullTime
  /\ (now - p_cmd_msg_time) > p_timeout_length

TimeoutViolated_Unguarded(p_cmd_msg_time, p_timeout_length) ==
  (now - p_cmd_msg_time) > p_timeout_length

TimeoutViolated(p_cmd_msg_time, p_timeout_length) ==
  /\ command_timeout(p_cmd_msg_time, p_timeout_length)
  /\ current_controller_name_ # default_controller_name_

commandTimeoutCheck(ok) ==
  /\ ~crashed
  /\ \E r \in IF TimeoutViolated(box_cmd_timeout_, box_timeout_length_)
                THEN switchToDefaultController(ok)
                ELSE {Outcome(TRUE, << >>, FALSE,
                              current_controller_name_, current_mode_)} :
       /\ current_controller_name_' = r.controller
       /\ current_mode_' = r.mode
       /\ crashed' = r.crash
       /\ last' = Event("tick", 0, ok, r.ret, r.requests)
       /\ running' = Switched(r.requests, ok)
  /\ UNCHANGED << config, law, box_cmd_timeout_, box_timeout_length_, now, threads >>

(* ---- ros::Time::now() moves on ---- *)
Advance ==
  /\ ~crashed
  /\ now < MaxTime
  /\ now' = now + 1
  /\ last' = Event("advance", 0, TRUE, TRUE, << >>)
  /\ actor' = "clock"
  /\ UNCHANGED << config, law, running, arbiter, box_timeout_length_, crashed,
                  mtx_, pc, cmd_local, wd_local >>

(* ---- init, lines 34-117 ---- *)
NoOutcome == Outcome(TRUE, << >>, FALSE, "", UNMAPPED_MODE)

(* the locals of a callback that is not running *)
NoCmdLocal == [mode |-> UNMAPPED_MODE, r |-> NoOutcome]

NoWdLocal == [p_timeout_length |-> 0, p_cmd_msg_time |-> NullTime, r |-> NoOutcome]

(* ---- the controller before controller_manager calls init ---- *)
(* joint_handles_ before the first setCommand *)
NoCommand == << >>

(* record of the member function that ran last: the message it was given, its
   return value and, for update, the pose error, the torque before saturation
   and the previous torque *)
LawEvent(op, arg, ret, error, tau_d, tau_J_d) ==
  [op |-> op, arg |-> arg, ret |-> ret,
   error |-> error, tau_d |-> tau_d, tau_J_d |-> tau_J_d]

LawCall(op, ret) == LawEvent(op, << >>, ret, << >>, << >>, << >>)

LawMessage(op, msg) == LawEvent(op, msg, TRUE, << >>, << >>, << >>)

(* the locals of a callback that is not running *)
NoLawLocal == << >>

(* a member that nothing has written yet *)
Uninitialized == << >>

(* the Eigen members are written first by init (lines 97-112) *)
Constructed(cfg, alpha) ==
  /\ lifecycle = "constructed"
  /\ law_config = cfg
  /\ filter_params_ = alpha
  /\ cartesian_stiffness_target_ = Uninitialized
  /\ cartesian_damping_target_ = Uninitialized
  /\ cartesian_stiffness_ = Uninitialized
  /\ cartesian_damping_ = Uninitialized
  /\ nullspace_stiffness_target_ = NULLSPACE_STIFFNESS_INIT
  /\ nullspace_stiffness_ = NULLSPACE_STIFFNESS_INIT
  /\ position_d_target_ = Uninitialized
  /\ position_d_ = Uninitialized
  /\ orientation_d_target_ = QuaternionIdentity
  /\ orientation_d_ = QuaternionIdentity
  /\ q_d_nullspace_ = Uninitialized
  /\ robot_state = RobotState(Pose(ZeroPosition, QuaternionIdentity),
                              ZeroJoints, ZeroJoints, ZeroJoints)
  /\ joint_handles_ = NoCommand
  /\ cycles = 0
  /\ events = 0
  /\ law_last = LawCall("constructed", TRUE)
  /\ law_pc = "idle"
  /\ law_local = NoLawLocal

(* a configuration init accepts *)
LoadableConfig ==
  LawConfig(Param(TRUE, "panda"), Param(TRUE, [i \in Joints |-> i]),
            Param(TRUE, [a \in Axes |-> IF a <= 3 THEN Fix(16) ELSE Fix(4)]), TRUE)

init(default_controller, command_timeout_default) ==
  /\ default_controller_name_ = default_controller
  /\ current_mode_ = UNMAPPED_MODE
  /\ current_controller_name_ = default_controller
  /\ box_cmd_timeout_ = NullTime
  /\ box_timeout_length_ = ClampTimeout(command_timeout_default)
  /\ now = 0
  /\ crashed = FALSE
  /\ last = Event("init", command_timeout_default, TRUE, TRUE, << >>)
  /\ mtx_ = "free"
  /\ pc = [t \in {"cmd", "wd"} |-> "idle"]
  /\ cmd_local = NoCmdLocal
  /\ wd_local = NoWdLocal
  /\ actor = "init"
  /\ running = {default_controller}

Init ==
  /\ \E d \in DefaultNames, t \in TimeoutInputs : init(d, t)
  /\ Constructed(LoadableConfig, ValueScale)

Command == \E m \in CommandModes, ok \in BOOLEAN : jointCommandCallback(m, ok)

TimeoutMessage == \E data \in TimeoutInputs : jointCommandTimeoutCallback(data)

Tick == \E ok \in BOOLEAN : commandTimeoutCheck(ok)

Next == Command \/ TimeoutMessage \/ Tick \/ Advance

Spec == Init /\ [][Next]_vars

(* the timer fires every 10 ms (line 116) and the controller manager accepts a
   request sooner or later *)
SpecLive == Spec /\ WF_vars(commandTimeoutCheck(TRUE))

(***************************************************************************)
(* The same callbacks statement by statement (SpecThreads): the command    *)
(* callback on thread "cmd", the timer callback on thread "wd", the        *)
(* timeout callback on thread "tmo".  pc[t] is the statement thread t      *)
(* executes next, mtx_ the thread that holds the mutex, actor the thread   *)
(* that took the last step.                                                *)
(***************************************************************************)

Goto(t, label) == pc' = [pc EXCEPT ![t] = label]

(* std::lock_guard<std::mutex> guard(mtx_), line 250: blocks while mtx_ is held *)
CmdLock_NoMutex(control_mode) ==
  /\ ~crashed
  /\ pc["cmd"] = "idle"
  /\ cmd_local' = [cmd_local EXCEPT !.mode = control_mode]
  /\ Goto("cmd", "switch")
  /\ actor' = "cmd"
  /\ UNCHANGED << config, law, running, arbiter, box_timeout_length_, now, crashed, last,
                  mtx_, wd_local >>

CmdLock(control_mode) ==
  /\ ~crashed
  /\ pc["cmd"] = "idle"
  /\ mtx_ = "free"
  /\ mtx_' = "cmd"
  /\ cmd_local' = [cmd_local EXCEPT !.mode = control_mode]
  /\ Goto("cmd", "switch")
  /\ actor' = "cmd"
  /\ UNCHANGED << config, law, running, arbiter, box_timeout_length_, now, crashed, last, wd_local >>

(* switchControllers up to the answer of the controller manager, lines 179-233 *)
CmdSwitch(ok) ==
  /\ ~crashed
  /\ pc["cmd"] = "switch"
  /\ LET r == switchControllers(cmd_local.mode, ok)
     IN /\ cmd_local' = [cmd_local EXCEPT !.r = r]
        /\ running' = Switched(r.requests, ok)
        /\ Goto("cmd", IF ~r.ret THEN "unlock"
                       ELSE IF r.requests = << >> THEN "stamp"
                       ELSE "set_mode")
  /\ actor' = "cmd"
  /\ UNCHANGED << config, law, arbiter, box_timeout_length_, now, crashed, last,
                  mtx_, wd_local >>

(* current_mode_ = control_mode, line 234 *)
CmdSetMode ==
  /\ ~crashed
  /\ pc["cmd"] = "set_mode"
  /\ current_mode_' = cmd_local.r.mode
  /\ Goto("cmd", "set_controller")
  /\ actor' = "cmd"
  /\ UNCHANGED << config, law, running, current_controller_name_, box_cmd_timeout_,
                  box_timeout_length_, now, crashed, last, mtx_, cmd_local, wd_local >>

(* current_controller_name_ = start_controllers[0], line 235 *)
CmdSetController ==
  /\ ~crashed
  /\ pc["cmd"] = "set_controller"
  /\ current_controller_name_' = cmd_local.r.controller
  /\ Goto("cmd", "stamp")
  /\ actor' = "cmd"
  /\ UNCHANGED << config, law, running, current_mode_, box_cmd_timeout_,
                  box_timeout_length_, now, crashed, last, mtx_, cmd_local, wd_local >>

(* box_cmd_timeout_.set(now), lines 252-253 *)
CmdStamp ==
  /\ ~crashed
  /\ pc["cmd"] = "stamp"
  /\ box_cmd_timeout_' = StampedTime(cmd_local.r.ret)
  /\ Goto("cmd", "unlock")
  /\ actor' = "cmd"
  /\ UNCHANGED << config, law, running, current_mode_, current_controller_name_,
                  box_timeout_length_, now, crashed, last, mtx_, cmd_local, wd_local >>

(* the guard's destructor, line 255 *)
CmdUnlock ==
  /\ ~crashed
  /\ pc["cmd"] = "unlock"
  /\ mtx_' = IF mtx_ = "cmd" THEN "free" ELSE mtx_
  /\ cmd_local' = NoCmdLocal
  /\ Goto("cmd", "idle")
  /\ actor' = "cmd"
  /\ UNCHANGED << config, law, running, arbiter, box_timeout_length_, now, crashed, last, wd_local >>

(* std::lock_guard<std::mutex> guard(mtx_), line 121 *)
WdLock_NoMutex ==
  /\ ~crashed
  /\ pc["wd"] = "idle"
  /\ Goto("wd", "get_timeout")
  /\ actor' = "wd"
  /\ UNCHANGED << config, law, running, arbiter, box_timeout_length_, now, crashed, last,
                  mtx_, cmd_local, wd_local >>

WdLock ==
  /\ ~crashed
  /\ pc["wd"] = "idle"
  /\ mtx_ = "free"
  /\ mtx_' = "wd"
  /\ Goto("wd", "get_timeout")
  /\ actor' = "wd"
  /\ UNCHANGED << config, law, running, arbiter, box_timeout_length_, now, crashed, last,
                  cmd_local, wd_local >>

(* box_timeout_length_.get(p_timeout_length), lines 123-124 *)
WdGetTimeout ==
  /\ ~crashed
  /\ pc["wd"] = "get_timeout"
  /\ wd_local' = [wd_local EXCEPT !.p_timeout_length = box_timeout_length_]
  /\ Goto("wd", "get_cmd_time")
  /\ actor' = "wd"
  /\ UNCHANGED << config, law, running, arbiter, box_timeout_length_, now, crashed, last,
                  mtx_, cmd_local >>

(* box_cmd_timeout_.get(p_cmd_msg_time), lines 125-126 *)
WdGetCmdTime ==
  /\ ~crashed
  /\ pc["wd"] = "get_cmd_time"
  /\ wd_local' = [wd_local EXCEPT !.p_cmd_msg_time = box_cmd_timeout_]
  /\ Goto("wd", "check")
  /\ actor' = "wd"
  /\ UNCHANGED << config, law, running, arbiter, box_timeout_length_, now, crashed, last,
                  mtx_, cmd_local >>

(* the staleness decision, lines 127-129 *)
WdCheck ==
  /\ ~crashed
  /\ pc["wd"] = "check"
  /\ Goto("wd", IF TimeoutViolated(wd_local.p_cmd_msg_time, wd_local.p_timeout_length)
                  THEN "switch" ELSE "unlock")
  /\ actor' = "wd"
  /\ UNCHANGED << config, law, running, arbiter, box_timeout_length_, now, crashed, last,
                  mtx_, cmd_local, wd_local >>

(* switchToDefaultController up to the answer of the controller manager,
   lines 139-153 *)
WdSwitch(ok) ==
  /\ ~crashed
  /\ pc["wd"] = "switch"
  /\ \E r \in switchToDefaultController(ok) :
       /\ wd_local' = [wd_local EXCEPT !.r = r]
       /\ running' = Switched(r.requests, ok)
       /\ Goto("wd", IF r.ret THEN "set_controller" ELSE "unlock")
  /\ actor' = "wd"
  /\ UNCHANGED << config, law, arbiter, box_timeout_length_, now, crashed, last,
                  mtx_, cmd_local >>

(* current_controller_name_ = start_controllers[0], line 154 *)
WdSetController ==
  /\ ~crashed
  /\ pc["wd"] = "set_controller"
  /\ crashed' = wd_local.r.crash
  /\ current_controller_name_' = wd_local.r.controller
  /\ Goto("wd", "set_mode")
  /\ actor' = "wd"
  /\ UNCHANGED << config, law, running, current_mode_, box_cmd_timeout_, box_timeout_length_,
                  now, last, mtx_, cmd_local, wd_local >>

(* current_mode_ = controller_name_to_mode_map_[current_controller_name_],
   line 155 *)
WdSetMode ==
  /\ ~crashed
  /\ pc["wd"] = "set_mode"
  /\ current_mode_' = wd_local.r.mode
  /\ Goto("wd", "unlock")
  /\ actor' = "wd"
  /\ UNCHANGED << config, law, running, current_controller_name_, box_cmd_timeout_,
                  box_timeout_length_, now, crashed, last, mtx_, cmd_local, wd_local >>

(* the guard's destructor, line 135 *)
WdUnlock ==
  /\ ~crashed
  /\ pc["wd"] = "unlock"
  /\ mtx_' = IF mtx_ = "wd" THEN "free" ELSE mtx_
  /\ wd_local' = NoWdLocal
  /\ Goto("wd", "idle")
  /\ actor' = "wd"
  /\ UNCHANGED << config, law, running, arbiter, box_timeout_length_, now, crashed, last, cmd_local >>

(* box_timeout_length_.set(p_cmd_timeout_length), lines 170-172: the callback
   takes no mutex; the box exchanges its content in one step *)
TmoSet(data) ==
  /\ ~crashed
  /\ box_timeout_length_' = ClampTimeout(data)
  /\ actor' = "tmo"
  /\ UNCHANGED << config, law, running, arbiter, now, crashed, last, mtx_, pc, cmd_local, wd_local >>

CmdReceive == \E m \in CommandModes : CmdLock(m)

CmdRequest == \E ok \in BOOLEAN : CmdSwitch(ok)

WdRequest == \E ok \in BOOLEAN : WdSwitch(ok)

TmoMessage == \E data \in TimeoutInputs : TmoSet(data)

NextThreads ==
  \/ CmdReceive \/ CmdRequest \/ CmdSetMode \/ CmdSetController \/ CmdStamp \/ CmdUnlock
  \/ WdLock \/ WdGetTimeout \/ WdGetCmdTime \/ WdCheck \/ WdRequest
  \/ WdSetController \/ WdSetMode \/ WdUnlock
  \/ TmoMessage
  \/ Advance

SpecThreads == Init /\ [][NextThreads]_vars

(***************************************************************************)
(* CartesianImpedanceController: init, starting, update and the two topic  *)
(* callbacks, each as one step.                                            *)
(***************************************************************************)
interface ==
  << default_controller_name_, current_controller_name_, current_mode_,
     box_cmd_timeout_, box_timeout_length_, now, crashed, last,
     mtx_, pc, cmd_local, wd_local, actor, running >>

(* ---- init, lines 18-115 ---- *)
ConfigAccepted_AnyArmId(cfg) ==
  /\ cfg.joint_names.found /\ Len(cfg.joint_names.value) = NUM_JOINTS
  /\ cfg.stiffness_gains.found /\ Len(cfg.stiffness_gains.value) = NUM_GAINS
  /\ cfg.hardware

(* lines 31-95: every check that makes init return false *)
ConfigAccepted(cfg) ==
  /\ cfg.arm_id.found
  /\ cfg.joint_names.found /\ Len(cfg.joint_names.value) = NUM_JOINTS
  /\ cfg.stiffness_gains.found /\ Len(cfg.stiffness_gains.value) = NUM_GAINS
  /\ cfg.hardware

(* line 102 *)
InitDamping(gain) == 2 * sqrt(gain)

CartesianImpedanceController_init ==
  /\ lifecycle = "constructed"
  /\ IF ConfigAccepted(law_config)
       THEN /\ cartesian_stiffness_target_' = Diagonal(law_config.stiffness_gains.value)
            /\ cartesian_damping_target_' =
                 Diagonal([a \in Axes |-> InitDamping(law_config.stiffness_gains.value[a])])
            /\ nullspace_stiffness_target_' = 0
            /\ position_d_' = ZeroPosition
            /\ orientation_d_' = QuaternionIdentity
            /\ position_d_target_' = ZeroPosition
            /\ orientation_d_target_' = QuaternionIdentity
            /\ cartesian_stiffness_' = Zero6x6
            /\ cartesian_damping_' = Zero6x6
            /\ lifecycle' = "initialized"
            /\ law_last' = LawCall("init", TRUE)
       ELSE /\ lifecycle' = "failed"
            /\ law_last' = LawCall("init", FALSE)
            /\ UNCHANGED << targets, cartesian_stiffness_, cartesian_damping_,
                            position_d_, orientation_d_ >>
  /\ UNCHANGED << interface, law_config, filter_params_, nullspace_stiffness_,
                  q_d_nullspace_, robot_state, joint_handles_, cycles, events, law_threads >>

starting_TargetsOnly ==
  /\ lifecycle = "initialized"
  /\ lifecycle' = "running"
  /\ position_d_target_' = robot_state.O_T_EE.position
  /\ orientation_d_target_' = robot_state.O_T_EE.orientation
  /\ q_d_nullspace_' = robot_state.q
  /\ law_last' = LawCall("starting", TRUE)
  /\ UNCHANGED << interface, law_config, filter_params_,
                  cartesian_stiffness_target_, cartesian_damping_target_,
                  nullspace_stiffness_target_, smoothed,
                  robot_state, joint_handles_, cycles, events, law_threads >>

(* ---- starting, lines 117-138: controller_manager starts a controller whose
   init returned true ---- *)
starting ==
  /\ lifecycle = "initialized"
  /\ lifecycle' = "running"
  /\ position_d_' = robot_state.O_T_EE.position
  /\ orientation_d_' = robot_state.O_T_EE.orientation
  /\ position_d_target_' = robot_state.O_T_EE.position
  /\ orientation_d_target_' = robot_state.O_T_EE.orientation
  /\ q_d_nullspace_' = robot_state.q
  /\ law_last' = LawCall("starting", TRUE)
  /\ UNCHANGED << interface, law_config, filter_params_,
                  cartesian_stiffness_target_, cartesian_damping_target_,
                  nullspace_stiffness_target_, cartesian_stiffness_,
                  cartesian_damping_, nullspace_stiffness_,
                  robot_state, joint_handles_, cycles, events, law_threads >>

(* ---- update, lines 140-211 ---- *)
update(jacobian, coriolis) ==
  /\ lifecycle = "running"
  /\ cycles < MaxCycles
  /\ LET error == PoseError(robot_state.O_T_EE.position, robot_state.O_T_EE.orientation,
                            position_d_, orientation_d_)
         tau_task == TauTask(jacobian, cartesian_stiffness_, cartesian_damping_,
                             error, robot_state.dq)
         tau_nullspace == TauNullspace(jacobian, nullspace_stiffness_, q_d_nullspace_,
                                       robot_state.q, robot_state.dq)
         tau_d == TauDesired(tau_task, tau_nullspace, coriolis)
         tau_d_saturated == saturateTorqueRate(tau_d, robot_state.tau_J_d)
     IN /\ joint_handles_' = tau_d_saturated
        /\ robot_state' = [robot_state EXCEPT !.tau_J_d = tau_d_saturated]
        /\ law_last' = LawEvent("update", << >>, TRUE, error, tau_d, robot_state.tau_J_d)
  /\ cartesian_stiffness_' =
       FilterMatrix(filter_params_, cartesian_stiffness_target_, cartesian_stiffness_)
  /\ cartesian_damping_' =
       FilterMatrix(filter_params_, cartesian_damping_target_, cartesian_damping_)
  /\ nullspace_stiffness_' =
       Filter(filter_params_, nullspace_stiffness_target_, nullspace_stiffness_)
  /\ position_d_' = FilterPosition(filter_params_, position_d_target_, position_d_)
  /\ orientation_d_' =
       FilterOrientation(filter_params_, orientation_d_target_, orientation_d_)
  /\ cycles' = cycles + 1
  /\ UNCHANGED << interface, lifecycle, law_config, filter_params_, targets,
                  q_d_nullspace_, events, law_threads >>

(* ---- stiffnessParamCallback, lines 224-317 ---- *)
(* lines 272-308: the two diagonal 3x3 blocks are written over the identity *)
Blocks(blocks) ==
  [i \in Axes, j \in Axes |->
     IF (i <= 3) = (j <= 3) THEN blocks[i, j] ELSE setIdentity[i, j]]

CallbackDamping_Critical(gain) == 2 * sqrt(gain)

(* lines 245-250: .5 * sqrt(gain) *)
CallbackDamping(gain) == sqrt(gain) \div 2

(* cartesian_stiffness_target_ when the callback returns *)
StiffnessTarget(msg) ==
  IF msg.use_flag = 0 THEN Diagonal(msg.gains) ELSE Blocks(msg.stiffness_blocks)

(* cartesian_damping_target_ when the callback returns *)
DampingTarget(msg) ==
  IF msg.use_flag = 0
    THEN IF msg.dampings[1] = NO_DAMPING
           THEN Diagonal([a \in Axes |-> CallbackDamping(msg.gains[a])])
           ELSE Diagonal(msg.dampings)
    ELSE Blocks(msg.damping_blocks)

(* the topics are subscribed by init; a controller whose init failed is
   destroyed with its subscribers *)
Subscribed == lifecycle \in {"initialized", "running"}

stiffnessParamCallback(msg) ==
  /\ Subscribed
  /\ events < MaxEvents
  /\ events' = events + 1
  /\ law_pc = "idle"
  /\ cartesian_stiffness_target_' = StiffnessTarget(msg)
  /\ cartesian_damping_target_' = DampingTarget(msg)
  /\ law_last' = LawMessage("stiffness", msg)
  /\ UNCHANGED << interface, lifecycle, law_config, filter_params_,
                  nullspace_stiffness_target_, position_d_target_,
                  orientation_d_target_, smoothed, q_d_nullspace_, robot_state,
                  joint_handles_, cycles, law_threads >>

(* ---- equilibriumPoseCallback, lines 319-328 ---- *)
(* lines 322-327: the orientation of the message, negated when its dot product
   with the last target is negative *)
OrientationTarget(last_orientation_d_target, orientation) ==
  IF DotNegative(last_orientation_d_target, orientation)
    THEN Negated(orientation) ELSE orientation

equilibriumPoseCallback_AlsoSmoothed(msg) ==
  /\ Subscribed
  /\ events < MaxEvents
  /\ events' = events + 1
  /\ law_pc = "idle"
  /\ position_d_target_' = msg.position
  /\ orientation_d_target_' = OrientationTarget(orientation_d_target_, msg.orientation)
  /\ position_d_' = msg.position
  /\ law_last' = LawMessage("pose", msg)
  /\ UNCHANGED << interface, lifecycle, law_config, filter_params_,
                  cartesian_stiffness_target_, cartesian_damping_target_,
                  nullspace_stiffness_target_, cartesian_stiffness_,
                  cartesian_damping_, nullspace_stiffness_, orientation_d_,
                  q_d_nullspace_, robot_state, joint_handles_, cycles, law_threads >>

equilibriumPoseCallback(msg) ==
  /\ Subscribed
  /\ events < MaxEvents
  /\ events' = events + 1
  /\ law_pc = "idle"
  /\ position_d_target_' = msg.position
  /\ orientation_d_target_' = OrientationTarget(orientation_d_target_, msg.orientation)
  /\ law_last' = LawMessage("pose", msg)
  /\ UNCHANGED << interface, lifecycle, law_config, filter_params_,
                  cartesian_stiffness_target_, cartesian_damping_target_,
                  nullspace_stiffness_target_, smoothed, q_d_nullspace_, robot_state,
                  joint_handles_, cycles, law_threads >>

(* ---- the robot: state_handle_->getRobotState() gives a new pose, joint
   positions and velocities; tau_J_d is the torque last commanded ---- *)
RobotMoves ==
  /\ Subscribed
  /\ events < MaxEvents
  /\ events' = events + 1
  /\ \E r \in RobotStates :
       /\ robot_state' = RobotState(r.O_T_EE, r.q, r.dq, robot_state.tau_J_d)
       /\ robot_state' # robot_state
  /\ law_last' = LawCall("robot", TRUE)
  /\ UNCHANGED << interface, lifecycle, law_config, filter_params_, targets, smoothed,
                  q_d_nullspace_, joint_handles_, cycles, law_threads >>

(* the arbiter is left as its init leaves it *)
InitLaw ==
  /\ init(trajectory_controller_name_, 0)
  /\ \E cfg \in LawConfigs, alpha \in FilterParams : Constructed(cfg, alpha)

Cycle == \E m \in ModelOutputs : update(m.jacobian, m.coriolis)

StiffnessMessage == \E msg \in StiffnessMessages : stiffnessParamCallback(msg)

PoseMessage == \E msg \in PoseMessages : equilibriumPoseCallback(msg)

NextLaw ==
  \/ CartesianImpedanceController_init
  \/ starting
  \/ Cycle
  \/ StiffnessMessage
  \/ PoseMessage
  \/ RobotMoves

SpecLaw == InitLaw /\ [][NextLaw]_vars

(***************************************************************************)
(* The two topic callbacks statement by statement (SpecLawThreads): they   *)
(* run one after the other on the subscriber's thread, while               *)
(* controller_manager calls starting and update on the control thread.     *)
(* The file takes no lock. The messages are those that arrive while the    *)
(* controller is running.                                                  *)
(***************************************************************************)
LawGoto(op, to) ==
  /\ law_pc' = to
  /\ law_last' = IF to = "idle" THEN LawMessage(op, law_local.msg) ELSE LawCall(op, TRUE)

(* what a callback step leaves alone besides the targets *)
LawStepFrame ==
  UNCHANGED << interface, lifecycle, law_config, filter_params_,
               nullspace_stiffness_target_, smoothed, q_d_nullspace_, robot_state,
               joint_handles_, cycles >>

stiffnessParamCallback_Receive(msg) ==
  /\ lifecycle = "running"
  /\ law_pc = "idle"
  /\ events < MaxEvents
  /\ events' = events + 1
  /\ law_local' = [msg |-> msg,
                   stiffness_before |-> cartesian_stiffness_target_,
                   damping_before |-> cartesian_damping_target_]
  /\ LawGoto("receive", "stiffness_setIdentity")
  /\ LawStepFrame
  /\ UNCHANGED << cartesian_stiffness_target_, cartesian_damping_target_,
                  position_d_target_, orientation_d_target_ >>

(* line 227 *)
stiffnessParamCallback_StiffnessIdentity ==
  /\ law_pc = "stiffness_setIdentity"
  /\ cartesian_stiffness_target_' = setIdentity
  /\ LawGoto("step", "damping_setIdentity")
  /\ LawStepFrame
  /\ UNCHANGED << cartesian_damping_target_, position_d_target_,
                  orientation_d_target_, events, law_local >>

(* line 228 *)
stiffnessParamCallback_DampingIdentity ==
  /\ law_pc = "damping_setIdentity"
  /\ cartesian_damping_target_' = setIdentity
  /\ LawGoto("step", "stiffness_write")
  /\ LawStepFrame
  /\ UNCHANGED << cartesian_stiffness_target_, position_d_target_,
                  orientation_d_target_, events, law_local >>

(* lines 235-240 or 272-289 *)
stiffnessParamCallback_StiffnessWrite ==
  /\ law_pc = "stiffness_write"
  /\ cartesian_stiffness_target_' = StiffnessTarget(law_local.msg)
  /\ LawGoto("step", "damping_write")
  /\ LawStepFrame
  /\ UNCHANGED << cartesian_damping_target_, position_d_target_,
                  orientation_d_target_, events, law_local >>

(* lines 243-265 or 291-308 *)
stiffnessParamCallback_DampingWrite ==
  /\ law_pc = "damping_write"
  /\ cartesian_damping_target_' = DampingTarget(law_local.msg)
  /\ law_local' = NoLawLocal
  /\ LawGoto("stiffness", "idle")
  /\ LawStepFrame
  /\ UNCHANGED << cartesian_stiffness_target_, position_d_target_,
                  orientation_d_target_, events >>

equilibriumPoseCallback_Receive(msg) ==
  /\ lifecycle = "running"
  /\ law_pc = "idle"
  /\ events < MaxEvents
  /\ events' = events + 1
  /\ law_local' = [msg |-> msg,
                   pose_before |-> Pose(position_d_target_, orientation_d_target_),
                   last_orientation_d_target |-> orientation_d_target_]
  /\ LawGoto("receive", "position_write")
  /\ LawStepFrame
  /\ UNCHANGED << cartesian_stiffness_target_, cartesian_damping_target_,
                  position_d_target_, orientation_d_target_ >>

(* lines 321-322 *)
equilibriumPoseCallback_PositionWrite ==
  /\ law_pc = "position_write"
  /\ position_d_target_' = law_local.msg.position
  /\ law_local' = [law_local EXCEPT !.last_orientation_d_target = orientation_d_target_]
  /\ LawGoto("step", "orientation_write")
  /\ LawStepFrame
  /\ UNCHANGED << cartesian_stiffness_target_, cartesian_damping_target_,
                  orientation_d_target_, events >>

(* lines 323-324 *)
equilibriumPoseCallback_OrientationWrite ==
  /\ law_pc = "orientation_write"
  /\ orientation_d_target_' = law_local.msg.orientation
  /\ LawGoto("step", "orientation_flip")
  /\ LawStepFrame
  /\ UNCHANGED << cartesian_stiffness_target_, cartesian_damping_target_,
                  position_d_target_, events, law_local >>

(* lines 325-327 *)
equilibriumPoseCallback_OrientationFlip ==
  /\ law_pc = "orientation_flip"
  /\ orientation_d_target_' =
       OrientationTarget(law_local.last_orientation_d_target, orientation_d_target_)
  /\ law_local' = NoLawLocal
  /\ LawGoto("pose", "idle")
  /\ LawStepFrame
  /\ UNCHANGED << cartesian_stiffness_target_, cartesian_damping_target_,
                  position_d_target_, events >>

StiffnessRequest == \E msg \in StiffnessMessages : stiffnessParamCallback_Receive(msg)

PoseRequest == \E msg \in PoseMessages : equilibriumPoseCallback_Receive(msg)

NextLawThreads ==
  \/ CartesianImpedanceController_init
  \/ starting
  \/ Cycle
  \/ RobotMoves
  \/ StiffnessRequest
  \/ stiffnessParamCallback_StiffnessIdentity
  \/ stiffnessParamCallback_DampingIdentity
  \/ stiffnessParamCallback_StiffnessWrite
  \/ stiffnessParamCallback_DampingWrite
  \/ PoseRequest
  \/ equilibriumPoseCallback_PositionWrite
  \/ equilibriumPoseCallback_OrientationWrite
  \/ equilibriumPoseCallback_OrientationFlip

SpecLawThreads == InitLaw /\ [][NextLawThreads]_vars


(***************************************************************************)
(* Properties of the arbiter, callbacks taken as single steps (Spec).      *)
(* In an action formula the unprimed variables are the state before the    *)
(* callback and last' tells which callback ran, on what input, and what    *)
(* it requested.                                                           *)
(***************************************************************************)

(* the controller init maps to a mode, lines 87-90 *)
MappedController(mode) ==
  CHOOSE n \in ControllerNames : controller_name_to_mode_map_[n] = mode

Stale == command_timeout(box_cmd_timeout_, box_timeout_length_)

RevertRequest ==
  /\ Len(last'.requests) = 1
  /\ last'.requests[1].start = << default_controller_name_ >>
  /\ Range(last'.requests[1].stop) = ControllerNames \ {default_controller_name_}

(* C1: when a command was accepted, it is older than the timeout and the current
   controller is not the default, a watchdog tick issues one request that starts
   the default controller and stops all the others; when the request succeeds
   the current controller is the default; a tick that finds the default
   controller current issues no request. *)
C1_WatchdogReversion ==
  [][ last'.op = "tick" =>
        /\ (Stale /\ current_controller_name_ # default_controller_name_) =>
             /\ RevertRequest
             /\ last'.ok => (~crashed' /\ current_controller_name_' = default_controller_name_)
        /\ (current_controller_name_ = default_controller_name_) =>
             last'.requests = << >> ]_vars

(* C1 in the configurations whose default controller is one of the eight *)
C1_WhenDefaultDefined ==
  [][ (last'.op = "tick" /\ default_controller_name_ \in ControllerNames) =>
        /\ (Stale /\ current_controller_name_ # default_controller_name_) =>
             /\ RevertRequest
             /\ last'.ok => (~crashed' /\ current_controller_name_' = default_controller_name_)
        /\ (current_controller_name_ = default_controller_name_) =>
             last'.requests = << >> ]_vars

(* C2: a command for a mapped mode other than the current one, whose request the
   controller manager accepts, issues exactly one request; it starts exactly the
   controller mapped to the mode and stops exactly the other seven; afterwards
   the current mode is the requested one and the current controller the started
   one. *)
C2_SuccessfulSwitch ==
  [][ ( /\ last'.op = "command"
        /\ last'.arg \in MappedModes
        /\ last'.arg # current_mode_
        /\ last'.ok ) =>
        /\ last'.ret
        /\ Len(last'.requests) = 1
        /\ last'.requests[1].start = << MappedController(last'.arg) >>
        /\ Len(last'.requests[1].stop) = Len(all_controllers_) - 1
        /\ Range(last'.requests[1].stop) =
             ControllerNames \ {MappedController(last'.arg)}
        /\ current_mode_' = last'.arg
        /\ current_controller_name_' = MappedController(last'.arg) ]_vars

C2_Witness ==
  /\ last.op = "command"
  /\ last.ret
  /\ Len(last.requests) = 1
  /\ current_mode_ = last.arg
  /\ current_controller_name_ = last.requests[1].start[1]

(* C3: a command whose switch request the controller manager refuses returns
   false and leaves current mode, current controller and last-command time as
   they were, so that the same command, sent again, issues the same request. *)
C3_FailedSwitchKeepsState ==
  /\ [][ (last'.op = "command" /\ last'.requests # << >> /\ ~last'.ok) =>
           /\ ~last'.ret
           /\ UNCHANGED arbiter ]_vars
  /\ [] ( (last.op = "command" /\ last.requests # << >> /\ ~last.ok) =>
            /\ switchControllers(last.arg, FALSE).requests = last.requests
            /\ switchControllers(last.arg, TRUE).requests = last.requests
            /\ switchControllers(last.arg, TRUE).ret )

C3_Witness ==
  /\ last.op = "command"
  /\ last.requests # << >>
  /\ ~last.ok
  /\ ~last.ret
  /\ box_cmd_timeout_ # NullTime

(* C4: in every reachable state a command for a mode outside POSITION, VELOCITY,
   TORQUE, IMPEDANCE returns false, issues no request and changes no arbiter
   state. *)
C4_UnmappedModeRejected ==
  [][ (last'.op = "command" /\ last'.arg \notin MappedModes) =>
        /\ ~last'.ret
        /\ last'.requests = << >>
        /\ UNCHANGED arbiter ]_vars

(* C5: the command callback changes the last-command time only when the mode
   request returned success, and a command whose mode is unrecognized or whose
   switch request is refused leaves the last-command time unchanged. *)
C5_StampOnlyOnSuccess ==
  [][ last'.op = "command" =>
        /\ (box_cmd_timeout_' # box_cmd_timeout_) => last'.ret
        /\ ( \/ last'.arg \notin MappedModes
             \/ (last'.requests # << >> /\ ~last'.ok) ) =>
             box_cmd_timeout_' = box_cmd_timeout_ ]_vars

(* C5 for the commands whose mode differs from the current mode *)
C5_WhenModeDiffers ==
  [][ (last'.op = "command" /\ last'.arg # current_mode_) =>
        /\ (box_cmd_timeout_' # box_cmd_timeout_) => last'.ret
        /\ ( \/ last'.arg \notin MappedModes
             \/ (last'.requests # << >> /\ ~last'.ok) ) =>
             box_cmd_timeout_' = box_cmd_timeout_ ]_vars

(* C4 for the commands whose mode differs from the current mode *)
C4_WhenModeDiffers ==
  [][ ( /\ last'.op = "command"
        /\ last'.arg \notin MappedModes
        /\ last'.arg # current_mode_ ) =>
        /\ ~last'.ret
        /\ last'.requests = << >>
        /\ UNCHANGED arbiter ]_vars

(* C6: a command for a mapped mode equal to the current mode returns true, issues
   no request and leaves current mode and current controller unchanged. *)
C6_SameModeNoOp ==
  [][ ( /\ last'.op = "command"
        /\ last'.arg \in MappedModes
        /\ last'.arg = current_mode_ ) =>
        /\ last'.ret
        /\ last'.requests = << >>
        /\ UNCHANGED << current_mode_, current_controller_name_ >> ]_vars

C6_Witness ==
  /\ last.op = "command"
  /\ last.arg \in MappedModes
  /\ last.arg = current_mode_
  /\ last.requests = << >>
  /\ last.ret

(* C7: with the joint position controller as default, the arbiter starts in mode
   POSITION; an accepted TORQUE command makes the torque controller and TORQUE
   current; the watchdog's successful reversion makes the position controller
   and POSITION current again. *)
C7_EndToEnd ==
  (default_controller_name_ = joint_position_controller_name_) =>
    /\ (last.op = "init" => current_mode_ = POSITION_MODE)
    /\ (last.op = "command" /\ last.arg = TORQUE_MODE /\ last.ret) =>
         /\ current_mode_ = TORQUE_MODE
         /\ current_controller_name_ = joint_torque_controller_name_
    /\ (last.op = "tick" /\ last.requests # << >> /\ last.ret) =>
         /\ current_mode_ = POSITION_MODE
         /\ current_controller_name_ = joint_position_controller_name_

(* C7 without its first step: what holds from the TORQUE command on *)
C7_AfterFirstCommand ==
  (default_controller_name_ = joint_position_controller_name_) =>
    /\ (last.op = "command" /\ last.arg = TORQUE_MODE /\ last.ret) =>
         /\ current_mode_ = TORQUE_MODE
         /\ current_controller_name_ = joint_torque_controller_name_
    /\ (last.op = "tick" /\ last.requests # << >> /\ last.ret) =>
         /\ current_mode_ = POSITION_MODE
         /\ current_controller_name_ = joint_position_controller_name_

(* C8: the stored command timeout always lies between 0.0 and 1.0 s, and the
   startup parameter and every timeout message are stored as the upper limit
   when above it, as the lower limit when below it, and unchanged otherwise. *)
C8_TimeoutClamped ==
  /\ box_timeout_length_ \in TIMEOUT_LOWER .. TIMEOUT_UPPER
  /\ last.op \in {"init", "timeout"} =>
       box_timeout_length_ =
         IF last.arg > TIMEOUT_UPPER THEN TIMEOUT_UPPER
         ELSE IF last.arg < TIMEOUT_LOWER THEN TIMEOUT_LOWER
         ELSE last.arg

C8_Witness ==
  /\ last.op = "timeout"
  /\ last.arg > TIMEOUT_UPPER
  /\ box_timeout_length_ = TIMEOUT_UPPER

(* C11: a watchdog tick whose switch request is refused issues that one request
   only and leaves current controller and mode unchanged; every tick that finds
   the command stale and a controller other than the default current issues the
   request; so when requests are accepted sooner or later, staleness with a
   controller other than the default does not last: the default controller
   becomes current (or a command is accepted, or the timeout grows). *)
C11_WatchdogRetries ==
  /\ [][ (last'.op = "tick" /\ TimeoutViolated(box_cmd_timeout_, box_timeout_length_)) =>
           /\ Len(last'.requests) = 1
           /\ ~last'.ok => (~last'.ret /\ UNCHANGED << current_controller_name_, current_mode_ >>) ]_vars
  /\ (Stale /\ current_controller_name_ # default_controller_name_)
       ~> (current_controller_name_ = default_controller_name_ \/ ~Stale)

(* C11 in the configurations whose default controller is one of the eight *)
C11_WhenDefaultDefined ==
  /\ [][ (last'.op = "tick" /\ TimeoutViolated(box_cmd_timeout_, box_timeout_length_)) =>
           /\ Len(last'.requests) = 1
           /\ ~last'.ok => (~last'.ret /\ UNCHANGED << current_controller_name_, current_mode_ >>) ]_vars
  /\ ( /\ default_controller_name_ \in ControllerNames
       /\ Stale
       /\ current_controller_name_ # default_controller_name_ )
       ~> (current_controller_name_ = default_controller_name_ \/ ~Stale)

(* C19: a command whose mode equals the current mode returns true, issues no
   request and sets the last-command time to now; a watchdog tick that finds the
   last command no older than the timeout issues no request and changes neither
   controller nor mode. *)
C19_SameModeRefreshes ==
  [][ /\ (last'.op = "command" /\ last'.arg = current_mode_) =>
           /\ last'.ret
           /\ last'.requests = << >>
           /\ box_cmd_timeout_' = now
           /\ UNCHANGED << current_controller_name_, current_mode_ >>
      /\ ( /\ last'.op = "tick"
           /\ box_cmd_timeout_ # NullTime
           /\ now - box_cmd_timeout_ <= box_timeout_length_ ) =>
           /\ last'.requests = << >>
           /\ UNCHANGED << current_controller_name_, current_mode_ >> ]_vars

C19_Witness ==
  /\ last.op = "command"
  /\ last.arg = current_mode_
  /\ last.arg \in MappedModes
  /\ last.requests = << >>
  /\ last.ret
  /\ current_controller_name_ # default_controller_name_
  /\ now > 0
  /\ box_cmd_timeout_ = now

(* the mode init's map gives a controller, the unmapped one for any other name *)
MappedModeOf(name) ==
  IF name \in ControllerNames THEN controller_name_to_mode_map_[name]
                              ELSE UNMAPPED_MODE

(* C20: in every reachable state the current mode is the mode the map assigns to
   the current controller. *)
C20_ModeMatchesController ==
  current_mode_ = MappedModeOf(current_controller_name_)

(* C20 once a mapped mode is current, default controller one of the eight *)
C20_OnceSwitched ==
  (default_controller_name_ \in ControllerNames /\ current_mode_ \in MappedModes) =>
    current_mode_ = MappedModeOf(current_controller_name_)

(***************************************************************************)
(* Properties of the callbacks as threads (SpecThreads).                   *)
(***************************************************************************)

InCallback(t) == pc[t] # "idle"

(* C9: the command callback and the watchdog tick exclude each other on mtx_:
   each holds it from its first statement to its last, neither takes a step
   while the other is inside, and when the watchdog issues its switch to
   default, the last-command time it judged is still the stored one, is still
   stale against the timeout it read, and the current controller is still not
   the default. *)
C9_CallbacksExclusive ==
  /\ [] ( /\ ~(InCallback("cmd") /\ InCallback("wd"))
          /\ InCallback("cmd") => mtx_ = "cmd"
          /\ InCallback("wd") => mtx_ = "wd"
          /\ pc["wd"] \in {"check", "switch"} =>
               wd_local.p_cmd_msg_time = box_cmd_timeout_
          /\ pc["wd"] = "switch" =>
               /\ command_timeout(box_cmd_timeout_, wd_local.p_timeout_length)
               /\ current_controller_name_ # default_controller_name_ )
  /\ [][ /\ InCallback("wd") => actor' # "cmd"
         /\ InCallback("cmd") => actor' # "wd" ]_vars

C9_Witness ==
  /\ pc["wd"] = "set_mode"
  /\ mtx_ = "wd"
  /\ ~crashed
  /\ box_cmd_timeout_ # NullTime
  /\ current_controller_name_ = default_controller_name_
  /\ current_mode_ # ModeOf(default_controller_name_)

(* C10: every change of current controller, current mode, last-command time and
   command timeout is made by a thread that holds mtx_. *)
C10_AllWritesUnderMutex ==
  [][ ( << current_controller_name_, current_mode_, box_cmd_timeout_,
           box_timeout_length_ >>' #
        << current_controller_name_, current_mode_, box_cmd_timeout_,
           box_timeout_length_ >> ) =>
        (mtx_ = actor' /\ mtx_' = actor') ]_vars

(* C10 as amended: every change of current controller, current mode and
   last-command time is made by a thread that holds mtx_; the command timeout
   is changed by the timeout callback alone, which does not take mtx_. *)
C10_ArbiterWritesUnderMutex ==
  [][ /\ (arbiter' # arbiter) => (mtx_ = actor' /\ mtx_' = actor')
      /\ (box_timeout_length_' # box_timeout_length_) =>
           (actor' = "tmo" /\ mtx_' = mtx_ /\ mtx_ # "tmo") ]_vars

C10_Witness ==
  /\ actor = "tmo"
  /\ mtx_ = "wd"
  /\ pc["wd"] = "check"
  /\ wd_local.p_timeout_length # box_timeout_length_

(***************************************************************************)
(* Properties of CartesianImpedanceController, member functions taken as   *)
(* single steps (SpecLaw) and the callbacks statement by statement         *)
(* (SpecLawThreads).                                                       *)
(***************************************************************************)
StiffnessStatements ==
  {"stiffness_setIdentity", "damping_setIdentity", "stiffness_write", "damping_write"}

PoseStatements == {"position_write", "orientation_write", "orientation_flip"}

(* C12: a cycle that runs while a stiffness callback is in progress reads the
   stiffness and damping targets either as they were before the callback or as
   the callback leaves them, and a cycle that runs while a pose callback is in
   progress reads the target position and orientation either both as before or
   both as the callback leaves them. *)
C12_CycleReadsCompleteTargets ==
  [][ law_last'.op = "update" =>
        /\ law_pc \in StiffnessStatements =>
             << cartesian_stiffness_target_, cartesian_damping_target_ >> \in
               { << law_local.stiffness_before, law_local.damping_before >>,
                 << StiffnessTarget(law_local.msg), DampingTarget(law_local.msg) >> }
        /\ law_pc \in PoseStatements =>
             Pose(position_d_target_, orientation_d_target_) \in
               { law_local.pose_before,
                 Pose(law_local.msg.position,
                      OrientationTarget(law_local.pose_before.orientation,
                                        law_local.msg.orientation)) } ]_vars

(* C13: after every cycle, each joint's commanded torque differs from the
   previous torque by at most delta_tau_max_; it is the computed torque when
   that differs from the previous torque by at most delta_tau_max_, and the
   previous torque plus or minus delta_tau_max_, by the sign of the difference,
   otherwise. *)
C13_TorqueRateSaturated ==
  law_last.op = "update" =>
    \A j \in Joints :
      LET previous   == law_last.tau_J_d[j]
          difference == law_last.tau_d[j] - previous
          output     == joint_handles_[j]
      IN /\ Abs(output - previous) <= delta_tau_max_
         /\ Abs(difference) <= delta_tau_max_ => output = law_last.tau_d[j]
         /\ difference > delta_tau_max_ => output = previous + delta_tau_max_
         /\ difference < 0 - delta_tau_max_ => output = previous - delta_tau_max_

C13_Witness ==
  /\ law_last.op = "update"
  /\ \E i, j, k \in Joints :
       /\ law_last.tau_d[i] - law_last.tau_J_d[i] > delta_tau_max_
       /\ law_last.tau_d[j] - law_last.tau_J_d[j] < 0 - delta_tau_max_
       /\ law_last.tau_d[k] # law_last.tau_J_d[k]
       /\ Abs(law_last.tau_d[k] - law_last.tau_J_d[k]) <= delta_tau_max_

(* a stiffness message in diagonal mode, six positive gains, no damping given *)
DiagonalNoOverride(msg) ==
  /\ msg.use_flag = 0
  /\ msg.dampings[1] = NO_DAMPING
  /\ \A a \in Axes : msg.gains[a] > 0

(* C14 as stated: a stiffness update in diagonal mode with six positive gains
   and no damping override sets the target stiffness to the diagonal of the
   gains and the target damping to the diagonal of 2*sqrt(gain), and a cycle
   with alpha = 1 makes the applied stiffness and damping equal to the targets. *)
C14_CriticalDamping ==
  [][ /\ (law_last'.op = "stiffness" /\ DiagonalNoOverride(law_last'.arg)) =>
           \A i, j \in Axes :
             /\ cartesian_stiffness_target_'[i, j] =
                  IF i = j THEN law_last'.arg.gains[i] ELSE 0
             /\ cartesian_damping_target_'[i, j] =
                  IF i = j THEN 2 * sqrt(law_last'.arg.gains[i]) ELSE 0
      /\ (law_last'.op = "update" /\ filter_params_ = ValueScale) =>
           /\ cartesian_stiffness_' = cartesian_stiffness_target_
           /\ cartesian_damping_' = cartesian_damping_target_ ]_vars

(* C14, amended: the target damping of each axis is 0.5*sqrt(gain). *)
C14_HalfRootDamping ==
  [][ /\ (law_last'.op = "stiffness" /\ DiagonalNoOverride(law_last'.arg)) =>
           \A i, j \in Axes :
             /\ cartesian_stiffness_target_'[i, j] =
                  IF i = j THEN law_last'.arg.gains[i] ELSE 0
             /\ cartesian_damping_target_'[i, j] =
                  IF i = j THEN sqrt(law_last'.arg.gains[i]) \div 2 ELSE 0
      /\ (law_last'.op = "update" /\ filter_params_ = ValueScale) =>
           /\ cartesian_stiffness_' = cartesian_stiffness_target_
           /\ cartesian_damping_' = cartesian_damping_target_ ]_vars

C14_Witness ==
  /\ law_last.op = "update"
  /\ filter_params_ = ValueScale
  /\ \E msg \in StiffnessMessages :
       /\ DiagonalNoOverride(msg)
       /\ cartesian_stiffness_ = Diagonal(msg.gains)
       /\ cartesian_damping_ = Diagonal([a \in Axes |-> sqrt(msg.gains[a]) \div 2])

(* one filter step: the distance to the target is multiplied by 1 - alpha *)
Contracts(alpha, target, before, after) ==
  /\ ValueScale * (after - target) = (ValueScale - alpha) * (before - target)
  /\ alpha = ValueScale => after = target
  /\ Abs(after - target) <= Abs(before - target)
  /\ (alpha > 0 /\ before # target) => Abs(after - target) < Abs(before - target)

(* C15: every cycle sets every entry of the applied stiffness and damping, the
   nullspace stiffness and every coordinate of the smoothed position to
   alpha*target + (1-alpha)*current: it equals the target after one cycle when
   alpha = 1, and its distance to a fixed target is multiplied by 1 - alpha in
   each cycle, so it never grows and goes to zero. *)
C15_ExponentialFilter ==
  [][ law_last'.op = "update" =>
        /\ \A i, j \in Axes :
             /\ Contracts(filter_params_, cartesian_stiffness_target_[i, j],
                          cartesian_stiffness_[i, j], cartesian_stiffness_'[i, j])
             /\ Contracts(filter_params_, cartesian_damping_target_[i, j],
                          cartesian_damping_[i, j], cartesian_damping_'[i, j])
        /\ Contracts(filter_params_, nullspace_stiffness_target_,
                     nullspace_stiffness_, nullspace_stiffness_')
        /\ \A c \in Coords :
             Contracts(filter_params_, position_d_target_[c],
                       position_d_[c], position_d_'[c]) ]_vars

C15_Witness ==
  /\ law_last.op = "update"
  /\ cycles = MaxCycles
  /\ filter_params_ < ValueScale
  /\ cartesian_stiffness_ # cartesian_stiffness_target_
  /\ cartesian_damping_ # cartesian_damping_target_
  /\ nullspace_stiffness_ # nullspace_stiffness_target_
  /\ position_d_ # position_d_target_

(* C16: the controller becomes running only by starting, from the state a
   successful init leaves; starting sets the smoothed pose and the target pose
   to the measured pose and the nullspace reference to the measured joint
   positions; the smoothed pose then stays until the first cycle, whose pose
   error is zero when the measured pose is still the one starting saw. *)
C16_StartCapturesPose ==
  [][ /\ (lifecycle' = "running" /\ lifecycle # "running") =>
           /\ law_last'.op = "starting"
           /\ lifecycle = "initialized"
           /\ Pose(position_d_', orientation_d_') = robot_state.O_T_EE
           /\ Pose(position_d_target_', orientation_d_target_') = robot_state.O_T_EE
           /\ q_d_nullspace_' = robot_state.q
      /\ (lifecycle' = "initialized" /\ lifecycle # "initialized") =>
           (law_last'.op = "init" /\ law_last'.ret)
      /\ (lifecycle = "running" /\ cycles = 0 /\ law_last'.op # "update") =>
           UNCHANGED << position_d_, orientation_d_ >>
      /\ ( /\ law_last'.op = "update"
           /\ cycles = 0
           /\ robot_state.O_T_EE = Pose(position_d_, orientation_d_) ) =>
           law_last'.error = << 0, 0, 0, 0, 0, 0 >> ]_vars

C16_Witness ==
  /\ law_last.op = "update"
  /\ cycles = 1
  /\ law_last.error = << 0, 0, 0, 0, 0, 0 >>
  /\ robot_state.O_T_EE.position # ZeroPosition
  /\ robot_state.O_T_EE.orientation # QuaternionIdentity
  /\ q_d_nullspace_ = robot_state.q

(* the configurations the claim names *)
MalformedConfig(cfg) ==
  \/ ~cfg.arm_id.found
  \/ ~cfg.joint_names.found
  \/ Len(cfg.joint_names.value) # NUM_JOINTS
  \/ ~cfg.stiffness_gains.found
  \/ Len(cfg.stiffness_gains.value) # NUM_GAINS

(* C17: with the arm id missing, or the joint names missing or not 7, or the
   stiffness gains missing or not 6, init returns false; and a controller whose
   init returned false is never running and never commands a torque. *)
C17_MalformedConfigNeverRuns ==
  /\ MalformedConfig(law_config) =>
       /\ lifecycle \in {"constructed", "failed"}
       /\ law_last.op = "init" => ~law_last.ret
  /\ (law_last.op = "init" /\ ~law_last.ret) => lifecycle = "failed"
  /\ lifecycle = "failed" => (joint_handles_ = NoCommand /\ cycles = 0)
  /\ (lifecycle = "failed" \/ MalformedConfig(law_config)) => lifecycle # "running"

C17_Witness ==
  /\ lifecycle = "failed"
  /\ law_last.op = "init"
  /\ ~law_last.ret
  /\ law_config.arm_id.found
  /\ law_config.hardware
  /\ Len(law_config.joint_names.value) = NUM_JOINTS
  /\ law_config.stiffness_gains.found
  /\ Len(law_config.stiffness_gains.value) = 5

(* the rotation between two quaternions, as an angle *)
AngleBetween(a, b) == AngleAxis(TimesInverse(a, b)).angle

(* C18: a pose callback sets the target position and the target orientation
   (the message's quaternion or its negation) and changes neither the smoothed
   position and orientation, nor the stiffness and damping, targets and applied
   values, nor the nullspace reference; the smoothed pose changes only in
   starting and in update, and a cycle does not take it further from the
   target. *)
C18_PoseUpdateSetsTargetsOnly ==
  [][ /\ law_last'.op = "pose" =>
           /\ position_d_target_' = law_last'.arg.position
           /\ orientation_d_target_' \in
                {law_last'.arg.orientation, Negated(law_last'.arg.orientation)}
           /\ UNCHANGED << smoothed, cartesian_stiffness_target_,
                           cartesian_damping_target_, nullspace_stiffness_target_,
                           q_d_nullspace_ >>
      /\ (position_d_' # position_d_ \/ orientation_d_' # orientation_d_) =>
           law_last'.op \in {"init", "starting", "update"}
      /\ law_last'.op = "update" =>
           /\ \A c \in Coords :
                Abs(position_d_'[c] - position_d_target_[c])
                  <= Abs(position_d_[c] - position_d_target_[c])
           /\ AngleBetween(orientation_d_', orientation_d_target_)
                <= AngleBetween(orientation_d_, orientation_d_target_) ]_vars

C18_Witness ==
  /\ law_last.op = "pose"
  /\ lifecycle = "running"
  /\ cycles > 0
  /\ position_d_target_ = law_last.arg.position
  /\ position_d_ # position_d_target_
  /\ orientation_d_target_ # law_last.arg.orientation
  /\ orientation_d_ # orientation_d_target_

(***************************************************************************)
(* The controllers the controller manager runs, under an atomic switch     *)
(* primitive and with the default controller alone running after init.     *)
(***************************************************************************)

(* C21: after any sequence of commands and watchdog ticks exactly one
   controller is running, and it is the controller the arbiter records as
   current (a default controller whose name is none of the eight counts as
   that one controller as long as it runs). *)
C21_OneRunningIsCurrent == running = {current_controller_name_}

(* C21 in the configurations whose default controller is one of the eight *)
C21_WhenDefaultDefined ==
  default_controller_name_ \in ControllerNames =>
    /\ running = {current_controller_name_}
    /\ current_controller_name_ \in ControllerNames

(* C22: with a default controller name that is none of the eight, no watchdog
   tick ends the process, a tick reads start_controllers[0] (it does so when
   its request was accepted) only with a non-empty start set, and the current
   controller after a tick is one of the eight or the configured default. *)
C22_AbsentDefaultNonFatal ==
  [][ (last'.op = "tick" /\ default_controller_name_ \notin ControllerNames) =>
        /\ ~crashed'
        /\ (last'.ret /\ last'.requests # << >>) =>
             last'.requests[1].start # << >>
        /\ current_controller_name_' \in
             ControllerNames \cup {default_controller_name_} ]_vars

(* C22 for the ticks whose request the controller manager refuses *)
C22_RefusedTickHarmless ==
  [][ ( /\ last'.op = "tick"
        /\ default_controller_name_ \notin ControllerNames
        /\ ~last'.ok ) =>
        /\ ~crashed'
        /\ UNCHANGED << arbiter, running >> ]_vars

(* C23: a last-command time exists exactly from the first accepted command on
   (an accepted command leaves one and none is ever taken away); while there
   is none, a watchdog tick issues no request and changes neither the current
   controller, the current mode, the last-command time, the timeout nor the
   running controllers, whatever the time and the timeout. *)
C23_NoTickBeforeFirstCommand ==
  [][ /\ (last'.op = "command" /\ last'.ret) => box_cmd_timeout_' # NullTime
      /\ box_cmd_timeout_ # NullTime => box_cmd_timeout_' # NullTime
      /\ (last'.op = "tick" /\ box_cmd_timeout_ = NullTime) =>
           /\ last'.requests = << >>
           /\ last'.ret
           /\ UNCHANGED << arbiter, box_timeout_length_, crashed, running >> ]_vars

C23_Witness ==
  /\ last.op = "tick"
  /\ box_cmd_timeout_ = NullTime
  /\ box_timeout_length_ = TIMEOUT_LOWER
  /\ now >= TicksPerSecond
  /\ running = {default_controller_name_}

====
